---------------------------- MODULE Spec2Model ----------------------------
(***************************************************************************)
(* Model of the mark-and-sweep collector of gnovm/pkg/gnolang/gc.go:       *)
(* the GC registry (objs, roots), the GCObj fields (marked, ref, path)     *)
(* and the operations AddObject, AddRoot, RemoveRoot and Collect.          *)
(* Collect is followed call by call through markObject, so that a nil      *)
(* dereference and the end of the traversal are both visible.              *)
(* EscapeAnalysis of the same file is a function of a function body; it    *)
(* has a specification of its own, EscSpec, that applies it to every body  *)
(* of a bounded family.                                                    *)
(***************************************************************************)
EXTENDS Integers, Sequences, FiniteSets, TLC

\* ------------------------------------------------------------------ bounds
\* longest objs list the model builds with AddObject
MaxObjs == 3
\* longest roots list the model builds with AddRoot
MaxRoots == 3

\* most statements in a function body handed to EscapeAnalysis
MaxStmts == 2

\* ------------------------------------------------------------- the universe
\* the *GCObj values the caller has constructed
Obj == {"a", "b"}
\* the nil *GCObj
Nil == "nil"
\* the values of GCObj.path
Paths == {"p", "q"}

VARIABLES
    objs,       \* GC.objs
    roots,      \* GC.roots
    marked,     \* GCObj.marked of every object
    ref,        \* GCObj.ref of every object (Nil or an object)
    path,       \* GCObj.path of every object
    pc,         \* "idle", or the position inside Collect
    rootIdx,    \* index of the root the mark loop of Collect is at
    cur,        \* the argument of the markObject call in progress
    fault,      \* a run-time panic has ended the program
    last,       \* the operation called last and its argument
    objs0,      \* GC.objs when the last Collect was called
    again,      \* the last Collect was called right after a Collect returned
    visited,    \* objects whose mark the Collect in progress has set
    setTwice,   \* the Collect in progress has set the mark of a visited object
    removed,    \* the path of the RemoveRoot right before the last Collect, or Nil
    body,       \* f.Body, the statement list EscapeAnalysis is applied to
    esc,        \* the outcome of EscapeAnalysis: heapVars, vars, panicked
    epc         \* "off", or "ready" / "done" around the call of EscapeAnalysis

gcVars == <<objs, roots, marked, ref, path, pc, rootIdx, cur, fault, last,
            objs0, again, visited, setTwice, removed>>
escVars == <<body, esc, epc>>
vars == <<gcVars, escVars>>

\* ------------------------------------------------------------------ helpers
Range(s) == {s[i] : i \in 1..Len(s)}

\* append(s[:i], s[i+1:]...) with i counted from 1
RemoveAt(s, i) == SubSeq(s, 1, i - 1) \o SubSeq(s, i + 1, Len(s))

\* the test of RemoveRoot's loop: o.path == path
MatchesNot(o, p) == path[o] # p
Matches(o, p) == path[o] = p

\* the loop of RemoveRoot: the index of the first root with the path, 0 if none
FirstMatch(p) ==
    IF \E i \in 1..Len(roots) : Matches(roots[i], p)
    THEN CHOOSE i \in 1..Len(roots) :
            /\ Matches(roots[i], p)
            /\ \A j \in 1..(i - 1) : ~Matches(roots[j], p)
    ELSE 0

\* the test at the head of markObject: obj.marked
AlreadyMarkedNever(o) == FALSE
AlreadyMarked(o) == marked[o]

\* the test of the sweep loop: the object is skipped when !obj.marked;
\* m is the marks as the loop has left them so far
KeptAlways(m, o) == TRUE
KeptUnmarked(m, o) == ~m[o]
Kept(m, o) == m[o]

\* the sweep loop of Collect from index i on: an object that is kept has
\* its mark cleared and is appended to newObjs, so a second occurrence of
\* it in objs is skipped
RECURSIVE SweepLoopReversed(_, _, _)
SweepLoopReversed(i, m, newObjs) ==
    IF i > Len(objs)
    THEN [objs |-> newObjs, marked |-> m]
    ELSE IF ~Kept(m, objs[i])
         THEN SweepLoopReversed(i + 1, m, newObjs)
         ELSE SweepLoopReversed(i + 1, [m EXCEPT ![objs[i]] = FALSE],
                                <<objs[i]>> \o newObjs)
RECURSIVE SweepLoop(_, _, _)
SweepLoop(i, m, newObjs) ==
    IF i > Len(objs)
    THEN [objs |-> newObjs, marked |-> m]
    ELSE IF ~Kept(m, objs[i])
         THEN SweepLoop(i + 1, m, newObjs)
         ELSE SweepLoop(i + 1, [m EXCEPT ![objs[i]] = FALSE],
                        Append(newObjs, objs[i]))

\* no function body is under analysis
EscOff ==
    /\ body = <<>>
    /\ esc = [heapVars |-> <<>>, vars |-> <<>>, panicked |-> FALSE]
    /\ epc = "off"

\* ---------------------------------------------------------------------- Init
\* NewGC() and the objects the caller has constructed: any ref, any path,
\* marked at its zero value
Init ==
    /\ objs = <<>>
    /\ roots = <<>>
    /\ marked = [o \in Obj |-> FALSE]
    /\ ref \in [Obj -> Obj \cup {Nil}]
    /\ path \in [Obj -> Paths]
    /\ pc = "idle"
    /\ rootIdx = 0
    /\ cur = Nil
    /\ fault = FALSE
    /\ last = [op |-> "NewGC", arg |-> Nil]
    /\ objs0 = <<>>
    /\ again = FALSE
    /\ visited = {}
    /\ setTwice = FALSE
    /\ removed = Nil
    /\ EscOff

\* ------------------------------------------------------------------- actions
\* what the model remembers of the last Collect is dropped by the next call
Forget ==
    /\ objs0' = <<>>
    /\ again' = FALSE
    /\ visited' = {}
    /\ setTwice' = FALSE
    /\ removed' = Nil

\* AddObject putting the object in front of objs instead of appending it
AddObjectFront(o) ==
    /\ pc = "idle" /\ ~fault
    /\ Len(objs) < MaxObjs
    /\ objs' = <<o>> \o objs
    /\ last' = [op |-> "AddObject", arg |-> o]
    /\ Forget
    /\ UNCHANGED <<roots, marked, ref, path, pc, rootIdx, cur, fault>>
    /\ UNCHANGED escVars

AddObject(o) ==
    /\ pc = "idle" /\ ~fault
    /\ Len(objs) < MaxObjs
    /\ objs' = Append(objs, o)
    /\ last' = [op |-> "AddObject", arg |-> o]
    /\ Forget
    /\ UNCHANGED <<roots, marked, ref, path, pc, rootIdx, cur, fault>>
    /\ UNCHANGED escVars

AddRoot(o) ==
    /\ pc = "idle" /\ ~fault
    /\ Len(roots) < MaxRoots
    /\ roots' = Append(roots, o)
    /\ last' = [op |-> "AddRoot", arg |-> o]
    /\ Forget
    /\ UNCHANGED <<objs, marked, ref, path, pc, rootIdx, cur, fault>>
    /\ UNCHANGED escVars

\* the slice expression gc.objs[i+1:] panics when i+1 > len(gc.objs)
RemoveRoot(p) ==
    /\ pc = "idle" /\ ~fault
    /\ last' = [op |-> "RemoveRoot", arg |-> p]
    /\ LET i == FirstMatch(p) IN
         IF i = 0
         THEN UNCHANGED <<objs, fault>>
         ELSE IF i > Len(objs)
              THEN fault' = TRUE /\ UNCHANGED objs
              ELSE objs' = RemoveAt(objs, i) /\ UNCHANGED fault
    /\ Forget
    /\ UNCHANGED <<roots, marked, ref, path, pc, rootIdx, cur>>
    /\ UNCHANGED escVars

\* the call of Collect: enter the mark loop
CollectCall ==
    /\ pc = "idle" /\ ~fault
    /\ pc' = "mark"
    /\ rootIdx' = 1
    /\ last' = [op |-> "Collect", arg |-> Nil]
    /\ objs0' = objs
    /\ again' = (last.op = "Collect")
    /\ visited' = {}
    /\ setTwice' = FALSE
    /\ removed' = (IF last.op = "RemoveRoot" THEN last.arg ELSE Nil)
    /\ UNCHANGED <<objs, roots, marked, ref, path, cur, fault>>
    /\ UNCHANGED escVars

\* the head of the mark loop: call markObject on the next root, or go on
\* to the sweep
MarkLoop ==
    /\ pc = "mark" /\ ~fault
    /\ IF rootIdx <= Len(roots)
       THEN pc' = "markObject" /\ cur' = roots[rootIdx]
       ELSE pc' = "sweep" /\ UNCHANGED cur
    /\ UNCHANGED <<objs, roots, marked, ref, path, rootIdx, fault, last,
                   objs0, again, visited, setTwice, removed>>
    /\ UNCHANGED escVars

\* one call of markObject(cur): obj.marked on a nil obj panics; a marked
\* obj returns (the calls below it return with it) to the mark loop; else
\* the mark is set and markObject(obj.ref) is called
markObject ==
    /\ pc = "markObject" /\ ~fault
    /\ IF cur = Nil
       THEN /\ fault' = TRUE
            /\ UNCHANGED <<marked, pc, rootIdx, cur, visited, setTwice>>
       ELSE IF AlreadyMarked(cur)
            THEN /\ pc' = "mark"
                 /\ rootIdx' = rootIdx + 1
                 /\ cur' = Nil
                 /\ UNCHANGED <<marked, fault, visited, setTwice>>
            ELSE /\ marked' = [marked EXCEPT ![cur] = TRUE]
                 /\ cur' = ref[cur]
                 /\ visited' = visited \cup {cur}
                 /\ setTwice' = (setTwice \/ cur \in visited)
                 /\ UNCHANGED <<pc, rootIdx, fault>>
    /\ UNCHANGED <<objs, roots, ref, path, last, objs0, again, removed>>
    /\ UNCHANGED escVars

\* the sweep loop and the return of Collect
Sweep ==
    /\ pc = "sweep" /\ ~fault
    /\ LET swept == SweepLoop(1, marked, <<>>) IN
         /\ objs' = swept.objs
         /\ marked' = swept.marked
    /\ pc' = "idle"
    /\ rootIdx' = 0
    /\ UNCHANGED <<roots, ref, path, cur, fault, last, objs0, again,
                   visited, setTwice, removed>>
    /\ UNCHANGED escVars

CollectStep == MarkLoop \/ markObject \/ Sweep

Next ==
    \/ \E o \in Obj : AddObject(o)
    \/ \E o \in Obj : AddRoot(o)
    \/ \E p \in Paths : RemoveRoot(p)
    \/ CollectCall
    \/ MarkLoop
    \/ markObject
    \/ Sweep

Spec == Init /\ [][Next]_vars

\* a Collect that was called keeps running: the steps inside it are taken
LiveSpec == Spec /\ WF_vars(CollectStep)

\* ------------------------------------------------- pending roots and lookup
\* the path of a GCObj that holds no path yet
NoPath == ""

\* the first object of a list that has path p, nil if there is none
FirstWithPath(s, p) ==
    IF \E i \in 1..Len(s) : path[s[i]] = p
    THEN s[CHOOSE i \in 1..Len(s) :
              /\ path[s[i]] = p
              /\ \A j \in 1..(i - 1) : path[s[j]] # p]
    ELSE Nil

\* getObjByPath: the scan runs over gc.objs
getObjByPath(p) == FirstWithPath(objs, p)

\* getRootByPath: the scan runs over gc.roots
getRootByPathInObjs(p) == FirstWithPath(objs, p)
getRootByPath(p) == FirstWithPath(roots, p)

\* the roots that hold no path
PendingRoots == {o \in Range(roots) : path[o] = NoPath}

\* bind_pending_root(p): a root that holds no path is given path p; with
\* several such roots outstanding it is not said which one, with none the
\* call is a fatal misuse
BindPendingRoot(p) ==
    /\ pc = "idle" /\ ~fault
    /\ IF PendingRoots = {}
       THEN /\ fault' = TRUE
            /\ last' = [op |-> "bind_pending_root", arg |-> p,
                        prev |-> last.op, added |-> last.arg, obj |-> Nil]
            /\ UNCHANGED path
       ELSE \E r \in PendingRoots :
              /\ path' = [path EXCEPT ![r] = p]
              /\ last' = [op |-> "bind_pending_root", arg |-> p,
                          prev |-> last.op, added |-> last.arg, obj |-> r]
              /\ UNCHANGED fault
    /\ Forget
    /\ UNCHANGED <<objs, roots, marked, ref, pc, rootIdx, cur>>
    /\ UNCHANGED escVars

\* NewGC() and the objects the caller has constructed, some without a path
BindInit ==
    /\ objs = <<>>
    /\ roots = <<>>
    /\ marked = [o \in Obj |-> FALSE]
    /\ ref \in [Obj -> Obj \cup {Nil}]
    /\ path \in [Obj -> Paths \cup {NoPath}]
    /\ pc = "idle"
    /\ rootIdx = 0
    /\ cur = Nil
    /\ fault = FALSE
    /\ last = [op |-> "NewGC", arg |-> Nil]
    /\ objs0 = <<>>
    /\ again = FALSE
    /\ visited = {}
    /\ setTwice = FALSE
    /\ removed = Nil
    /\ EscOff

BindNext ==
    \/ \E o \in Obj : AddObject(o)
    \/ \E o \in Obj : AddRoot(o)
    \/ \E p \in Paths \cup {NoPath} : RemoveRoot(p)
    \/ \E p \in Paths : BindPendingRoot(p)

\* the registry with roots that are bound to their path after AddRoot
BindSpec == BindInit /\ [][BindNext]_vars

\* ------------------------------------------------------------ EscapeAnalysis
\* The syntax tree, with the node kinds of go/ast the analysis meets:
\* *ast.Ident
Ident(n) == [k |-> "Ident", name |-> n]
\* a node kind without a case in the analysis and without a name
\* (*ast.BasicLit, *ast.CompositeLit)
Other == [k |-> "Other"]
\* *ast.UnaryExpr
Unary(op, x) == [k |-> "Unary", op |-> op, x |-> x]
\* *ast.StarExpr
Star(x) == [k |-> "Star", x |-> x]
\* *ast.CallExpr
Call(f, args) == [k |-> "Call", fun |-> f, args |-> args]
\* *ast.Field of a parameter or result list
Field(names, t) == [names |-> names, type |-> t]
\* *ast.FuncLit; hasResults is x.Type.Results != nil
FuncLit(params, hasResults, results, b) ==
    [k |-> "FuncLit", params |-> params, hasResults |-> hasResults,
     results |-> results, body |-> b]
\* *ast.AssignStmt
Assign(lhs, rhs) == [k |-> "Assign", lhs |-> lhs, rhs |-> rhs]
\* *ast.ReturnStmt
Return(results) == [k |-> "Return", results |-> results]
\* *ast.GoStmt
Go(call) == [k |-> "Go", call |-> call]
\* *ast.DeclStmt of `var n int`
Decl(n) == [k |-> "Decl", names |-> <<n>>, type |-> Ident("int")]
\* *ast.ExprStmt
ExprStmt(x) == [k |-> "ExprStmt", x |-> x]

\* isReference with the token test left out, and with the StarExpr case
\* left out
isReferenceAnyUnary(expr) == expr.k = "Star" \/ expr.k = "Unary"
isReferenceAddrOnly(expr) == expr.k = "Unary" /\ expr.op = "&"
isReference(expr) ==
    \/ expr.k = "Star"
    \/ expr.k = "Unary" /\ expr.op = "&"

RECURSIVE getVarName(_)
getVarName(expr) ==
    IF expr.k = "Ident" THEN expr.name
    ELSE IF expr.k \in {"Star", "Unary"} THEN getVarName(expr.x)
    ELSE ""

checkEscapedNever(ident, escapedList) == FALSE
checkEscapedAlways(ident, escapedList) == TRUE
checkEscaped(ident, escapedList) ==
    \E i \in 1..Len(escapedList) : escapedList[i] = ident

\* the test of the GoStmt and FuncLit cases:
\* checkEscaped(name, heapVars) || checkEscaped(name, vars)
EscapedOnly(name, st) == checkEscaped(name, st.heapVars)
SeenOrEscaped(name, st) ==
    checkEscaped(name, st.heapVars) \/ checkEscaped(name, st.vars)

\* heapVars = append(heapVars, name)
Escape(st, name) == [st EXCEPT !.heapVars = Append(@, name)]

\* the identifiers of the names of a field list and their types, as
\* ast.Walk meets them
RECURSIVE FieldNodes(_, _)
FieldNodes(fields, i) ==
    IF i > Len(fields) THEN <<>>
    ELSE [j \in 1..Len(fields[i].names) |-> Ident(fields[i].names[j])]
            \o <<fields[i].type>> \o FieldNodes(fields, i + 1)

\* the children of a node in the order of ast.Walk; the nodes in between
\* that have no case (FuncType, FieldList, Field, BlockStmt, GenDecl,
\* ValueSpec) are passed over
Children(n) ==
    CASE n.k \in {"Unary", "Star", "ExprStmt"} -> <<n.x>>
      [] n.k = "Call" -> <<n.fun>> \o n.args
      [] n.k = "FuncLit" ->
            FieldNodes(n.params, 1) \o FieldNodes(n.results, 1) \o n.body
      [] n.k = "Assign" -> n.lhs \o n.rhs
      [] n.k = "Return" -> n.results
      [] n.k = "Go" -> <<n.call>>
      [] n.k = "Decl" ->
            [j \in 1..Len(n.names) |-> Ident(n.names[j])] \o <<n.type>>
      [] OTHER -> <<>>

\* the nodes of a list of trees in the order ast.Inspect visits them
RECURSIVE NodesOf(_, _)
NodesOf(s, i) ==
    IF i > Len(s) THEN <<>>
    ELSE <<s[i]>> \o NodesOf(Children(s[i]), 1) \o NodesOf(s, i + 1)

\* case *ast.GoStmt: the loop over x.Call.Args
RECURSIVE GoArgs(_, _, _)
GoArgs(args, i, st) ==
    IF i > Len(args) THEN st
    ELSE GoArgs(args, i + 1,
                IF SeenOrEscaped(getVarName(args[i]), st)
                THEN Escape(st, getVarName(args[i])) ELSE st)

\* case *ast.FuncLit: the inner ast.Inspect over x.Body, nodes being the
\* nodes of the body
RECURSIVE Capture(_, _, _)
Capture(nodes, i, st) ==
    IF i > Len(nodes) THEN st
    ELSE Capture(nodes, i + 1,
                 IF nodes[i].k = "Ident" /\ SeenOrEscaped(nodes[i].name, st)
                 THEN Escape(st, nodes[i].name) ELSE st)

\* case *ast.FuncLit: the loop over a field list; v.Names[0] of a field
\* without names is out of range
RECURSIVE RefFields(_, _, _)
RefFields(fields, i, st) ==
    IF i > Len(fields) \/ st.panicked THEN st
    ELSE RefFields(fields, i + 1,
                   IF ~isReference(fields[i].type) THEN st
                   ELSE IF Len(fields[i].names) = 0
                        THEN [st EXCEPT !.panicked = TRUE]
                        ELSE Escape(st, fields[i].names[1]))

\* a name that the AssignStmt case lets escape on the left: ln != "" &&
\* ln != "_"
NamedLhs(ln) == ln # "" /\ ln # "_"

\* case *ast.AssignStmt: the loop over x.Rhs; x.Lhs[i] is out of range
\* when Rhs is longer than Lhs
RECURSIVE AssignRhs(_, _, _)
AssignRhs(x, i, st) ==
    IF i > Len(x.rhs) \/ st.panicked THEN st
    ELSE IF i > Len(x.lhs) THEN [st EXCEPT !.panicked = TRUE]
    ELSE LET ln == getVarName(x.lhs[i])
             rn == getVarName(x.rhs[i])
         IN AssignRhs(x, i + 1,
                IF isReference(x.rhs[i])
                THEN Escape(IF NamedLhs(ln) THEN Escape(st, ln) ELSE st, rn)
                ELSE IF checkEscaped(rn, st.heapVars) /\ NamedLhs(ln)
                     THEN Escape(st, ln)
                     ELSE st)

\* case *ast.ReturnStmt: the loop over x.Results
RECURSIVE ReturnResults(_, _, _)
ReturnResults(results, i, st) ==
    IF i > Len(results) THEN st
    ELSE ReturnResults(results, i + 1,
                       IF isReference(results[i])
                       THEN Escape(st, getVarName(results[i])) ELSE st)

\* the function handed to ast.Inspect, at node n
Visit(n, st) ==
    CASE n.k = "Go" -> GoArgs(n.call.args, 1, st)
      [] n.k = "Ident" -> [st EXCEPT !.vars = Append(@, n.name)]
      [] n.k = "FuncLit" ->
            LET st1 == Capture(NodesOf(n.body, 1), 1, st)
                st2 == RefFields(n.params, 1, st1)
            IN IF n.hasResults THEN RefFields(n.results, 1, st2) ELSE st2
      [] n.k = "Assign" -> AssignRhs(n, 1, st)
      [] n.k = "Return" -> ReturnResults(n.results, 1, st)
      [] OTHER -> st

\* ast.Inspect: the function at the node, then the children; a panic ends
\* the traversal
RECURSIVE Walk(_, _), WalkList(_, _, _)
Walk(n, st) ==
    IF st.panicked THEN st ELSE WalkList(Children(n), 1, Visit(n, st))
WalkList(s, i, st) ==
    IF i > Len(s) THEN st ELSE WalkList(s, i + 1, Walk(s[i], st))

\* EscapeAnalysis on the statement list of f.Body
EscapeAnalysis(b) ==
    WalkList(b, 1, [heapVars |-> <<>>, vars |-> <<>>, panicked |-> FALSE])

\* the function bodies the analysis is applied to
PtrInt == Star(Ident("int"))
Exprs ==
    {Ident("a"), Ident("b"), Unary("&", Ident("a")), Star(Ident("b")),
     Unary("&", Other), Unary("-", Ident("a")), Other}
LhsExprs == {Ident("a"), Ident("b"), Ident("_")}
ParamLists ==
    {<<>>, <<Field(<<"a">>, Ident("int"))>>, <<Field(<<"a", "b">>, PtrInt)>>,
     <<Field(<<>>, PtrInt)>>}
ResultLists == {<<Field(<<>>, PtrInt)>>, <<Field(<<"b">>, PtrInt)>>}
FuncBodies ==
    {<<>>, <<ExprStmt(Call(Ident("use"), <<Ident("a")>>))>>,
     <<Return(<<Unary("&", Ident("b"))>>)>>}
FuncLits ==
    {FuncLit(ps, FALSE, <<>>, fb) : ps \in ParamLists, fb \in FuncBodies}
        \cup {FuncLit(ps, TRUE, rs, fb) :
                ps \in ParamLists, rs \in ResultLists, fb \in FuncBodies}
Stmts ==
    {Decl("a"), Decl("b")}
        \cup {Assign(<<l>>, <<e>>) : l \in LhsExprs, e \in Exprs}
        \cup {Return(<<e>>) : e \in Exprs}
        \cup {Go(Call(Ident("g"), <<e>>)) : e \in Exprs}
        \cup {Go(Call(fl, <<>>)) : fl \in FuncLits}
Bodies == UNION {[1..n -> Stmts] : n \in 0..MaxStmts}

\* no collector is in use
GCOff ==
    /\ objs = <<>>
    /\ roots = <<>>
    /\ marked = [o \in Obj |-> FALSE]
    /\ ref = [o \in Obj |-> Nil]
    /\ path = [o \in Obj |-> NoPath]
    /\ pc = "idle"
    /\ rootIdx = 0
    /\ cur = Nil
    /\ fault = FALSE
    /\ last = [op |-> "NewGC", arg |-> Nil]
    /\ objs0 = <<>>
    /\ again = FALSE
    /\ visited = {}
    /\ setTwice = FALSE
    /\ removed = Nil

EscInit ==
    /\ body \in Bodies
    /\ esc = [heapVars |-> <<>>, vars |-> <<>>, panicked |-> FALSE]
    /\ epc = "ready"
    /\ GCOff

\* the call of EscapeAnalysis on the body
Analyze ==
    /\ epc = "ready"
    /\ esc' = EscapeAnalysis(body)
    /\ epc' = "done"
    /\ UNCHANGED body
    /\ UNCHANGED gcVars

EscNext == Analyze

EscSpec == EscInit /\ [][EscNext]_vars

\* ------------------------------------------------------ notions of the claims
\* Collect has returned and nothing has been called since
Returned == pc = "idle" /\ ~fault /\ last.op = "Collect"

\* the objects on the ref chain that starts at o, o included
RECURSIVE ChainFrom(_, _)
ChainFrom(o, seen) ==
    IF o = Nil \/ o \in seen THEN seen ELSE ChainFrom(ref[o], seen \cup {o})

\* the objects on the ref chain of some root
OnRootChain == UNION {ChainFrom(roots[i], {}) : i \in 1..Len(roots)}

\* the ref chain that starts at o loops: it never reaches nil
Loops(o) == \A x \in ChainFrom(o, {}) : ref[x] # Nil

\* the indices of the roots that have path p
RootsWithPath(p) == {i \in 1..Len(roots) : path[roots[i]] = p}

\* the root list without the first root that has path p
WithoutFirst(p) ==
    IF RootsWithPath(p) = {} THEN roots
    ELSE LET i == CHOOSE k \in RootsWithPath(p) :
                    \A j \in RootsWithPath(p) : k <= j
         IN SubSeq(roots, 1, i - 1) \o SubSeq(roots, i + 1, Len(roots))

\* every object's ref is nil or points at an object of the registry
WellFormed ==
    \A o \in Range(objs) \cup Range(roots) :
        ref[o] = Nil \/ ref[o] \in Range(objs) \cup Range(roots)

\* the step is a call of RemoveRoot(p)
IsRemoveRoot(p) == pc = "idle" /\ ~fault /\ last' = [op |-> "RemoveRoot", arg |-> p]

\* ---------------------------------------------------------------------- C1
\* C1: after Collect returns, every object on the ref chain of a root (the
\* root included) is in objs and has marked = false.
C1_ReachableKeptUnmarked ==
    Returned => \A o \in OnRootChain : o \in Range(objs) /\ ~marked[o]

\* ---------------------------------------------------------------------- C2
\* C2: after Collect returns, every object in objs lies on the ref chain of
\* some current root.
C2_UnreachableAbsent ==
    Returned => \A o \in Range(objs) : o \in OnRootChain

\* a Collect that dropped an object off every root chain and kept another
C2_Witness ==
    /\ Returned
    /\ Range(objs0) \ OnRootChain # {}
    /\ objs # <<>>

\* ---------------------------------------------------------------------- C3
\* C3: with an empty root list, objs is empty after Collect, whatever
\* AddObject had put into it.
C3_NoRootsAllCollected ==
    (Returned /\ roots = <<>>) => objs = <<>>

\* a Collect without roots that was called with at least two objects
C3_Witness ==
    Returned /\ roots = <<>> /\ Len(objs0) >= 2 /\ objs = <<>>

\* ---------------------------------------------------------------------- C4
\* C4: Collect does not fault on a registry in which every ref is nil or
\* points at a registered object.
C4_CollectNeverFaults ==
    (last.op = "Collect" /\ WellFormed) => ~fault

\* ---------------------------------------------------------------------- C5
\* C5: with two roots of path p in the root list, RemoveRoot(p) removes
\* the first of them from the root list and keeps the others in order.
C5_RemovesFirstOfTwo ==
    [][\A p \in Paths :
          (IsRemoveRoot(p) /\ Cardinality(RootsWithPath(p)) >= 2)
              => roots' = WithoutFirst(p)]_vars

\* ---------------------------------------------------------------------- C6
\* C6: RemoveRoot leaves the objects collection as it was.
C6_RemoveRootKeepsObjs ==
    [][\A p \in Paths : IsRemoveRoot(p) => objs' = objs]_vars

\* ---------------------------------------------------------------------- C7
\* C7: a Collect called right after a Collect returned leaves objs as the
\* first one left it.
C7_CollectIdempotent ==
    (Returned /\ again) => objs = objs0

\* ---------------------------------------------------------------------- C8
\* C8: between operations every object in objs, in the root list or on a
\* root's ref chain has marked = false.
C8_UnmarkedBetweenOps ==
    (pc = "idle" /\ ~fault)
        => \A o \in Range(objs) \cup Range(roots) \cup OnRootChain : ~marked[o]

\* ---------------------------------------------------------------------- C9
\* C9: within one Collect no object has its mark set twice, and a Collect
\* that was called comes to an end (it returns, or the program has
\* stopped), also on a ref chain that loops.
C9_CollectTerminates ==
    /\ [](~setTwice)
    /\ (pc # "idle") ~> (pc = "idle" \/ fault)

\* a Collect that has returned after marking along a chain that loops
C9_Witness ==
    Returned /\ \E o \in visited : Loops(o)

\* --------------------------------------------------------------------- C10
\* C10: RemoveRoot(p) with no root of path p leaves the root list and
\* objs as they were, and does not fault.
C10_NoMatchNoOp ==
    [][\A p \in Paths :
          (IsRemoveRoot(p) /\ RootsWithPath(p) = {})
              => (roots' = roots /\ objs' = objs /\ ~fault')]_vars

\* RemoveRoot(p) was called with roots and objects present, none of the
\* roots having path p
C10_Witness ==
    /\ pc = "idle" /\ ~fault
    /\ last.op = "RemoveRoot"
    /\ RootsWithPath(last.arg) = {}
    /\ roots # <<>>
    /\ objs # <<>>

\* --------------------------------------------------------------------- C11
\* C11: Collect does not remove from objs an object that is in the root
\* list (a root that is in objs when Collect is called is in objs when it
\* returns), and no step of Collect changes the root list.
C11_RootsNotCollected ==
    /\ [](Returned => \A o \in Range(roots) \cap Range(objs0) : o \in Range(objs))
    /\ [][last'.op = "Collect" => roots' = roots]_vars

\* a Collect that has kept a registered root and has dropped another object
C11_Witness ==
    /\ Returned
    /\ Range(roots) \cap Range(objs0) # {}
    /\ Range(objs0) \ Range(objs) # {}

\* --------------------------------------------------------------------- C12
\* C12: AddObject(o) appends o to objs, changes no mark and no root, and
\* does not fault.
C12_AddObjectAppends ==
    [][\A o \in Obj :
          (pc = "idle" /\ ~fault /\ last' = [op |-> "AddObject", arg |-> o])
              => /\ objs' = Append(objs, o)
                 /\ marked' = marked
                 /\ roots' = roots
                 /\ ~fault']_vars

\* AddObject has put an unmarked object that is no root behind another
\* object, with roots present
C12_Witness ==
    /\ pc = "idle" /\ ~fault
    /\ last.op = "AddObject"
    /\ Len(objs) >= 2
    /\ objs[Len(objs)] = last.arg
    /\ objs[1] # last.arg
    /\ ~marked[last.arg]
    /\ roots # <<>>
    /\ last.arg \notin Range(roots)

\* --------------------------------------------------------------------- C13
\* the step is bind_pending_root(p) called right after AddRoot(o), o
\* holding no path
IsBindAfterAddRoot(o, p) ==
    /\ pc = "idle" /\ ~fault
    /\ last = [op |-> "AddRoot", arg |-> o]
    /\ path[o] = NoPath
    /\ last'.op = "bind_pending_root"
    /\ last'.arg = p

\* C13 as stated: after AddRoot(o), o holding no path, and
\* bind_pending_root(p), getRootByPath(p) returns o.
C13_BoundRootFound ==
    [][\A o \in Obj, p \in Paths :
          IsBindAfterAddRoot(o, p) => getRootByPath(p)' = o]_vars

\* no root ahead of the first occurrence of o in the root list has path p
NoneAheadHasPath(o, p) ==
    \A i \in 1..Len(roots) :
        (\A j \in 1..i : roots[j] # o) => path[roots[i]] # p

\* C13 as amended: after AddRoot(o), o holding no path and being the only
\* root without a path, and bind_pending_root(p), getRootByPath(p) returns
\* o if no root ahead of o in the root list has path p.
C13_BoundRootFoundIfFirst ==
    [][\A o \in Obj, p \in Paths :
          (IsBindAfterAddRoot(o, p) /\ PendingRoots = {o}
                /\ NoneAheadHasPath(o, p))
              => getRootByPath(p)' = o]_vars

\* bind_pending_root has bound the root added just before it, behind a
\* root of another path, and the lookup by the new path finds it
C13_Witness ==
    /\ pc = "idle" /\ ~fault
    /\ last.op = "bind_pending_root"
    /\ last.prev = "AddRoot"
    /\ last.obj # Nil
    /\ last.added = last.obj
    /\ path[last.obj] = last.arg
    /\ Len(roots) >= 2
    /\ roots[1] # last.obj
    /\ getRootByPath(last.arg) = last.obj

\* ------------------------------------------- notions of the escape claims
\* EscapeAnalysis has returned its list
EscDone == epc = "done" /\ ~esc.panicked

\* the names in the list EscapeAnalysis has returned
EscResult == Range(esc.heapVars)

\* the nodes of the body in the order of the traversal
BodyNodes == NodesOf(body, 1)

\* the expression is an address-of or a dereference expression
IsRefExpr(e) == e.k = "Star" \/ (e.k = "Unary" /\ e.op = "&")

\* the expression is &v or *v for a variable v
IsRefOfVar(e) == IsRefExpr(e) /\ e.x.k = "Ident"

\* the names in the escaped list when statement k of the body is visited
EscapedBefore(k) == Range(EscapeAnalysis(SubSeq(body, 1, k - 1)).heapVars)

\* the names of the identifiers among the first i - 1 nodes of a traversal
SeenBefore(nodes, i) ==
    {nodes[j].name : j \in {h \in 1..(i - 1) : nodes[h].k = "Ident"}}

\* the pointer-typed fields of the parameters and results of a literal
PointerFields(n) ==
    {f \in Range(n.params) \cup (IF n.hasResults THEN Range(n.results) ELSE {}) :
        f.type.k = "Star"}

\* the body has no go statement, no function literal, no address-of and
\* no dereference expression
NoRefConstruct ==
    LET nodes == BodyNodes IN
    \A i \in DOMAIN nodes :
        /\ nodes[i].k \notin {"Go", "FuncLit"}
        /\ ~IsRefExpr(nodes[i])

\* --------------------------------------------------------------------- C14
\* C14: every variable that is an argument &v or *v of the call of a go
\* statement is in the result, also when the go statement is the first
\* place of the body that mentions it.
C14_GoArgEscapes ==
    EscDone =>
        LET nodes == BodyNodes IN
        \A i \in DOMAIN nodes :
            nodes[i].k = "Go" =>
                \A j \in DOMAIN nodes[i].call.args :
                    IsRefOfVar(nodes[i].call.args[j])
                        => nodes[i].call.args[j].x.name \in EscResult

\* --------------------------------------------------------------------- C15
\* C15: every variable v of a result &v or *v of a return statement of
\* the body is in the list EscapeAnalysis returns.
C15_ReturnedRefEscapes ==
    EscDone =>
        LET nodes == BodyNodes IN
        \A i \in DOMAIN nodes :
            nodes[i].k = "Return" =>
                \A j \in DOMAIN nodes[i].results :
                    IsRefOfVar(nodes[i].results[j])
                        => nodes[i].results[j].x.name \in EscResult

\* the analysis has returned on a body of two statements whose only
\* reference is the result *v of a return statement
C15_Witness ==
    /\ EscDone
    /\ Len(body) = 2
    /\ body[1].k = "Decl"
    /\ body[2].k = "Return"
    /\ body[2].results[1].k = "Star"
    /\ body[2].results[1].x.name \in EscResult

\* --------------------------------------------------------------------- C16
\* C16 as stated: for an assignment lhs = rhs, if rhs is an address-of or
\* a dereference expression the names of lhs and of the operand of rhs are
\* in the result, and if rhs is a name that is in the escaped list when
\* the assignment is visited the name of lhs is in the result.
C16_AssignEscapes ==
    EscDone =>
        \A k \in DOMAIN body :
            body[k].k = "Assign" =>
                \A i \in DOMAIN body[k].rhs :
                    LET ln == getVarName(body[k].lhs[i])
                        r == body[k].rhs[i]
                    IN /\ IsRefExpr(r) =>
                            ln \in EscResult /\ getVarName(r) \in EscResult
                       /\ (r.k = "Ident" /\ r.name \in EscapedBefore(k)) =>
                            ln \in EscResult

\* C16 as amended: the same, the name of lhs being in the result only if
\* lhs has a name and is not the blank identifier _.
C16_AssignEscapesNamed ==
    EscDone =>
        \A k \in DOMAIN body :
            body[k].k = "Assign" =>
                \A i \in DOMAIN body[k].rhs :
                    LET ln == getVarName(body[k].lhs[i])
                        r == body[k].rhs[i]
                    IN /\ IsRefExpr(r) =>
                            /\ ln \notin {"", "_"} => ln \in EscResult
                            /\ getVarName(r) \in EscResult
                       /\ (r.k = "Ident" /\ r.name \in EscapedBefore(k)
                                /\ ln \notin {"", "_"}) =>
                            ln \in EscResult

\* the analysis has returned on a body that takes the address of a
\* variable in an assignment to _ and then assigns that variable to another
C16_Witness ==
    /\ EscDone
    /\ Len(body) = 2
    /\ body[1].k = "Assign" /\ body[2].k = "Assign"
    /\ getVarName(body[1].lhs[1]) = "_"
    /\ IsRefOfVar(body[1].rhs[1])
    /\ body[2].rhs[1].k = "Ident"
    /\ body[2].rhs[1].name = body[1].rhs[1].x.name
    /\ getVarName(body[2].lhs[1]) \notin {"_", body[2].rhs[1].name}
    /\ getVarName(body[2].lhs[1]) \in EscResult
    /\ "_" \notin EscResult

\* --------------------------------------------------------------------- C17
\* C17: every identifier in the body of a function literal whose name is
\* the name of an identifier visited earlier in the traversal is in the
\* result.
C17_CapturedNameEscapes ==
    EscDone =>
        LET nodes == BodyNodes
            result == EscResult
        IN \A i \in DOMAIN nodes :
              nodes[i].k = "FuncLit" =>
                  LET inner == NodesOf(nodes[i].body, 1)
                      seen == SeenBefore(nodes, i)
                  IN \A j \in DOMAIN inner :
                        (inner[j].k = "Ident" /\ inner[j].name \in seen)
                            => inner[j].name \in result

\* the analysis has returned on a body that declares a variable and then
\* uses it in a function literal without parameters and results
C17_Witness ==
    /\ EscDone
    /\ Len(body) = 2
    /\ body[1].k = "Decl"
    /\ body[2].k = "Go"
    /\ body[2].call.fun.k = "FuncLit"
    /\ body[2].call.fun.params = <<>>
    /\ ~body[2].call.fun.hasResults
    /\ \E j \in DOMAIN NodesOf(body[2].call.fun.body, 1) :
          LET x == NodesOf(body[2].call.fun.body, 1)[j]
          IN x.k = "Ident" /\ x.name = body[1].names[1]
    /\ esc.heapVars = <<body[1].names[1]>>

\* --------------------------------------------------------------------- C18
\* C18: for a body without go statement, function literal, address-of
\* and dereference expression EscapeAnalysis returns the empty list.
C18_NoFalseEscape ==
    (epc = "done" /\ NoRefConstruct) => (~esc.panicked /\ esc.heapVars = <<>>)

\* the analysis has returned on a body that declares a variable, assigns
\* to it and returns it
C18_Witness ==
    /\ EscDone
    /\ NoRefConstruct
    /\ Len(body) >= 2
    /\ \E k \in DOMAIN body : body[k].k = "Assign"
    /\ \E k \in DOMAIN body : body[k].k = "Return"
    /\ esc.vars # <<>>
    /\ esc.heapVars = <<>>

\* --------------------------------------------------------------------- C19
\* C19: EscapeAnalysis returns without a panic on every body.
C19_NeverPanics ==
    epc = "done" => ~esc.panicked

\* --------------------------------------------------------------------- C20
\* C20: every name of every pointer-typed parameter or result field of
\* a function literal of the body is in the result.
C20_PointerFieldsEscape ==
    EscDone =>
        LET nodes == BodyNodes IN
        \A i \in DOMAIN nodes :
            nodes[i].k = "FuncLit" =>
                \A f \in PointerFields(nodes[i]) :
                    \A j \in DOMAIN f.names : f.names[j] \in EscResult

\* --------------------------------------------------------------------- C21
\* o is on the ref chain of root i and on the chain of no other root
OnlyOnChainOf(o, i) ==
    /\ o \in ChainFrom(roots[i], {})
    /\ \A j \in 1..Len(roots) : j # i => o \notin ChainFrom(roots[j], {})

\* C21: when Collect has returned from a call made right after
\* RemoveRoot(p), p being the path of a single root, no object that was in
\* objs at the call and lies on the ref chain of that root only is in
\* objs, and that Collect has not called markObject on that root.
C21_RemovedRootCollected ==
    /\ [](\A i \in 1..Len(roots) :
            (Returned /\ removed # Nil /\ RootsWithPath(removed) = {i})
                => \A o \in Range(objs0) :
                       OnlyOnChainOf(o, i) => o \notin Range(objs))
    /\ [][\A i \in 1..Len(roots) :
            (removed # Nil /\ RootsWithPath(removed) = {i}
                /\ pc = "mark" /\ pc' = "markObject")
                => rootIdx # i]_vars

\* --------------------------------------------------------------------- C22
\* s can be had from t by leaving elements out
RECURSIVE IsSubsequence(_, _)
IsSubsequence(s, t) ==
    IF s = <<>> THEN TRUE
    ELSE IF t = <<>> THEN FALSE
    ELSE IF Head(s) = Head(t) THEN IsSubsequence(Tail(s), Tail(t))
    ELSE IsSubsequence(s, Tail(t))

\* C22: no step of a Collect puts an object into objs or changes the
\* order of objs, and when Collect has returned objs is a subsequence of
\* what it was at the call.
C22_CollectOnlyShrinks ==
    /\ [](Returned => IsSubsequence(objs, objs0))
    /\ [][last'.op = "Collect" => IsSubsequence(objs', objs)]_vars

\* a Collect has returned that discarded an object and retained two
\* different ones
C22_Witness ==
    /\ Returned
    /\ Len(objs) < Len(objs0)
    /\ \E i, j \in DOMAIN objs : objs[i] # objs[j]

\* --------------------------------------------------------------------- C23
\* the escaped list when the analysis has gone through statement k
EscapedAfter(k) == Range(EscapeAnalysis(SubSeq(body, 1, k)).heapVars)

\* C23: an assignment of the body whose right-hand sides are names that
\* are not in the escaped list when it is visited adds nothing to the
\* escaped list, whatever comes after it; an assignment lhs = rhs to a
\* named lhs whose rhs is a name that is in the escaped list when it is
\* visited adds the name of lhs.
C23_SinglePassInOrder ==
    EscDone =>
        \A k \in DOMAIN body :
            body[k].k = "Assign" =>
                LET before == EscapedBefore(k)
                    after == EscapedAfter(k)
                    x == body[k]
                IN /\ (\A i \in DOMAIN x.rhs :
                          x.rhs[i].k = "Ident" /\ x.rhs[i].name \notin before)
                       => after = before
                   /\ \A i \in DOMAIN x.rhs :
                          (x.rhs[i].k = "Ident" /\ x.rhs[i].name \in before
                              /\ getVarName(x.lhs[i]) \notin {"", "_"})
                          => getVarName(x.lhs[i]) \in after

\* the analysis has returned on a body that assigns a variable to another
\* and then takes the address of the first: the first is in the result
\* and the other is not
C23_Witness ==
    /\ EscDone
    /\ Len(body) = 2
    /\ body[1].k = "Assign" /\ body[2].k = "Assign"
    /\ body[1].rhs[1].k = "Ident"
    /\ getVarName(body[1].lhs[1]) \notin {"", "_", body[1].rhs[1].name}
    /\ IsRefOfVar(body[2].rhs[1])
    /\ body[2].rhs[1].x.name = body[1].rhs[1].name
    /\ getVarName(body[2].lhs[1]) # getVarName(body[1].lhs[1])
    /\ body[1].rhs[1].name \in EscResult
    /\ getVarName(body[1].lhs[1]) \notin EscResult

\* --------------------------------------------------------------------- C24
\* C24: RemoveRoot never faults.
C24_RemoveRootNeverFaults ==
    last.op = "RemoveRoot" => ~fault
=============================================================================
